---- MODULE Spec2Model ----
(***************************************************************************)
(* State-machine model of src-tauri/src/main.rs: the P2PNetwork object     *)
(* (swarm handle + peer set, each behind a tokio Mutex), the three tauri   *)
(* commands connect_p2p / discover_peers / send_message that lock the      *)
(* shared Arc<Mutex<P2PNetwork>>, and the background run_p2p_event_loop.   *)
(* The local network (mDNS announcements, remote inboxes, stream faults,   *)
(* the wall clock, the OS bind outcome) is the environment.                *)
(***************************************************************************)
EXTENDS Integers, Sequences, FiniteSets, TLC

(* ------------------------------ bounds -------------------------------- *)
NumTasks == 1          \* command invocations the UI may have in flight at once
NumRemotePeers == 1    \* other application instances on the LAN
MaxPort == 2           \* ephemeral ports the OS may hand out: 1..MaxPort
MaxClock == 1          \* wall-clock readings 0..MaxClock

(* ------------------------------ processes ----------------------------- *)
EventLoop == 0                       \* the task spawned in main
Tasks == 1..NumTasks                 \* tauri command invocations

(* ------------------------------ values -------------------------------- *)
LocalKey == 0                        \* the keypair generated in P2PNetwork::new
PeerKeys == 0..NumRemotePeers        \* identities present on the LAN
RemotePeers == PeerKeys \ {LocalKey}
Ports == 1..MaxPort
Instants == 0..MaxClock              \* what chrono::Utc::now() may read
Contents == {"hi", "yo"}             \* text the UI passes to send_message

\* PeerId::to_string: the base58 text of the identity (injective, not the key itself)
PeerIdToString(k) == [base58 |-> k]
\* PeerId::from(local_key.public())
LocalPeerId == LocalKey
\* chrono::Utc::now().to_rfc3339()
ToRfc3339(c) == [rfc3339 |-> c]

\* "local".to_string(), the sender written into every P2PMessage
LocalSender == [literal |-> "local"]

\* struct P2PMessage
P2PMessage(c, s, ts) == [content |-> c, sender |-> s, timestamp |-> ts]
NoMessage == [content |-> "", sender |-> [literal |-> ""], timestamp |-> ToRfc3339(0)]

\* Result<_, String> values handed back to the UI
Ok(fmt) == [kind |-> "Ok", fmt |-> fmt]
OkArg(fmt, a) == [kind |-> "Ok", fmt |-> fmt, arg |-> a]
Err(fmt, a) == [kind |-> "Err", fmt |-> fmt, arg |-> a]
NoResult == [kind |-> "None"]

\* all orders in which a HashSet of the given elements may be iterated
RECURSIVE IterOrders(_)
IterOrders(S) ==
    IF S = {} THEN {<<>>}
    ELSE UNION {{<<x>> \o s : s \in IterOrders(S \ {x})} : x \in S}

Range(s) == {s[i] : i \in DOMAIN s}

VARIABLES
    pc,          \* pc[t]: position of command invocation t
    content,     \* content[t]: argument of send_message invocation t
    msg,         \* msg[t]: the P2PMessage built by invocation t
    res,         \* res[t]: the value invocation t returns / has in hand
    loopPc,      \* position of run_p2p_event_loop
    loopRes,     \* the event loop's last discover_peers result
    netLock,     \* holders of Mutex<P2PNetwork>  (AppState.p2p_network)
    swarmLock,   \* holders of Mutex<Swarm>       (P2PNetwork.swarm)
    peersLock,   \* holders of Mutex<HashSet>     (P2PNetwork.peers)
    peers,       \* P2PNetwork.peers
    listeners,   \* ports the swarm's TCP transport has bound
    attempts,    \* attempts[t]: listen_on calls made by invocation t
    netEvent,    \* netEvent[k]: last mDNS event the LAN produced about identity k
    announced,   \* the live remote identities, in the order the LAN first announced them
    faulty,      \* remote peers whose streams currently fail
    inbox,       \* inbox[k]: messages delivered to remote peer k
    codec        \* a P2PMessage on its way through the derived Serialize/Deserialize

vars == <<pc, content, msg, res, loopPc, loopRes, netLock, swarmLock, peersLock,
          peers, listeners, attempts, netEvent, announced, faulty, inbox, codec>>

progVars == <<pc, content, msg, res, loopPc, loopRes, netLock, swarmLock, peersLock,
              peers, listeners, attempts>>
\* what no command and no loop step writes
envVars == <<netEvent, announced, faulty, inbox, codec>>

(* --------------------------- P2PNetwork::new -------------------------- *)
\* peers: Arc::new(Mutex::new(HashSet::new()))
NewPeers == {}
\* Swarm::with_tokio_executor(...): no listener yet
NewListeners == {}

\* main never serializes a message: the codec is idle
CodecIdle == [phase |-> "idle", m |-> NoMessage, wire |-> <<>>, out |-> NoResult]

\* main up to the point where the UI can issue commands
Started ==
    /\ pc = [t \in Tasks |-> "idle"]
    /\ content = [t \in Tasks |-> ""]
    /\ msg = [t \in Tasks |-> NoMessage]
    /\ res = [t \in Tasks |-> NoResult]
    /\ loopPc = "sleep"
    /\ loopRes = NoResult
    /\ netLock = {}
    /\ swarmLock = {}
    /\ peersLock = {}
    /\ peers = NewPeers
    /\ listeners = NewListeners
    /\ attempts = [t \in Tasks |-> 0]
    /\ netEvent = [k \in PeerKeys |-> "None"]
    /\ announced = <<>>
    /\ faulty = {}
    /\ inbox = [k \in RemotePeers |-> {}]

Init == Started /\ codec = CodecIdle

(* ------------------------------ mutexes ------------------------------- *)
\* tokio::sync::Mutex::lock().await completes only when nobody holds the mutex
CanLock(lock) == lock = {}

(* ------------------------- P2PNetwork methods ------------------------- *)
\* what Swarm::listen_on("/ip4/0.0.0.0/tcp/0") can do: the bind fails, or the OS
\* binds a free ephemeral port
ListenOutcomes(ls) ==
    {[ok |-> FALSE, port |-> 0]} \cup {[ok |-> TRUE, port |-> p] : p \in Ports \ ls}

\* the listener set after listen_on
ListenOn(ls, o) == IF o.ok THEN ls \cup {o.port} ELSE ls

\* P2PNetwork::start's value: `?` on the listen error, else the fixed text
StartResult(o) ==
    IF o.ok THEN Ok("P2P network started")
    ELSE Err("Listen error: {}", "bind failed")

\* fault variant: connect_p2p hands start()'s own value through instead of matching on it
ConnectResultPassThrough(r) == r

\* the match in connect_p2p
ConnectResult(r) ==
    IF r.kind = "Ok" THEN Ok("P2P network connection established successfully")
    ELSE Err("Failed to connect to P2P network: {}", r)

\* P2PNetwork::discover_peers: peers.iter().map(|p| p.to_string()).collect()
DiscoverPeersResult(order) ==
    [kind |-> "Ok", list |-> [i \in DOMAIN order |-> PeerIdToString(order[i])]]

\* the P2PMessage literal in the send_message command
BuildMessage(c, now) == P2PMessage(c, LocalSender, ToRfc3339(now))

\* fault variant: an empty peer set is reported as an error
SendResultErrOnEmpty(ps) ==
    IF ps = {} THEN Err("No peers connected", 0)
    ELSE OkArg("Message sent to {} peers", Cardinality(ps))

\* P2PNetwork::send_message: Ok(format!("Message sent to {} peers", peers.len()))
SendResult(ps) == OkArg("Message sent to {} peers", Cardinality(ps))

(* --------------------------- command: connect_p2p --------------------- *)
InvokeConnect(t) ==
    /\ pc[t] = "idle"
    /\ pc' = [pc EXCEPT ![t] = "c_lock"]
    /\ UNCHANGED <<content, msg, res, loopPc, loopRes, netLock, swarmLock, peersLock,
                   peers, listeners, attempts>>
    /\ UNCHANGED envVars

\* let mut network = state.p2p_network.lock().await
ConnectLock(t) ==
    /\ pc[t] = "c_lock"
    /\ CanLock(netLock)
    /\ netLock' = {t}
    /\ pc' = [pc EXCEPT ![t] = "c_start"]
    /\ UNCHANGED <<content, msg, res, loopPc, loopRes, swarmLock, peersLock,
                   peers, listeners, attempts>>
    /\ UNCHANGED envVars

\* start(): the address parses; self.swarm.lock().await
StartLockSwarm(t) ==
    /\ pc[t] = "c_start"
    /\ CanLock(swarmLock)
    /\ swarmLock' = {t}
    /\ pc' = [pc EXCEPT ![t] = "c_listen"]
    /\ UNCHANGED <<content, msg, res, loopPc, loopRes, netLock, peersLock,
                   peers, listeners, attempts>>
    /\ UNCHANGED envVars

\* .listen_on(listen_addr).map_err(..)?  -- the swarm guard is dropped with the statement
StartListen(t) ==
    /\ pc[t] = "c_listen"
    /\ \E o \in ListenOutcomes(listeners) :
          /\ listeners' = ListenOn(listeners, o)
          /\ res' = [res EXCEPT ![t] = StartResult(o)]
    /\ attempts' = [attempts EXCEPT ![t] = @ + 1]
    /\ swarmLock' = {}
    /\ pc' = [pc EXCEPT ![t] = "c_ret"]
    /\ UNCHANGED <<content, msg, loopPc, loopRes, netLock, peersLock, peers>>
    /\ UNCHANGED envVars

\* fault variant: a failed start is retried under the same guard instead of being returned
ConnectReturnRetry(t) ==
    /\ pc[t] = "c_ret"
    /\ IF res[t].kind = "Err"
       THEN /\ pc' = [pc EXCEPT ![t] = "c_start"]
            /\ UNCHANGED <<res, netLock>>
       ELSE /\ res' = [res EXCEPT ![t] = Ok("P2P network connection established successfully")]
            /\ netLock' = {}
            /\ pc' = [pc EXCEPT ![t] = "c_done"]
    /\ UNCHANGED <<content, msg, loopPc, loopRes, swarmLock, peersLock,
                   peers, listeners, attempts>>
    /\ UNCHANGED envVars

\* match network.start().await {..}; the network guard is dropped on return
ConnectReturn(t) ==
    /\ pc[t] = "c_ret"
    /\ res' = [res EXCEPT ![t] = ConnectResult(res[t])]
    /\ netLock' = {}
    /\ pc' = [pc EXCEPT ![t] = "c_done"]
    /\ UNCHANGED <<content, msg, loopPc, loopRes, swarmLock, peersLock,
                   peers, listeners, attempts>>
    /\ UNCHANGED envVars

(* -------------------------- command: discover_peers ------------------- *)
InvokeDiscover(t) ==
    /\ pc[t] = "idle"
    /\ pc' = [pc EXCEPT ![t] = "d_lock"]
    /\ UNCHANGED <<content, msg, res, loopPc, loopRes, netLock, swarmLock, peersLock,
                   peers, listeners, attempts>>
    /\ UNCHANGED envVars

\* fault variant: the command reaches the peer set through a clone of the inner Arc,
\* without taking the network mutex
DiscoverLockSkipsNetwork(t) ==
    /\ pc[t] = "d_lock"
    /\ pc' = [pc EXCEPT ![t] = "d_peers"]
    /\ UNCHANGED <<content, msg, res, loopPc, loopRes, netLock, swarmLock, peersLock,
                   peers, listeners, attempts>>
    /\ UNCHANGED envVars

\* let network = state.p2p_network.lock().await
DiscoverLock(t) ==
    /\ pc[t] = "d_lock"
    /\ CanLock(netLock)
    /\ netLock' = {t}
    /\ pc' = [pc EXCEPT ![t] = "d_peers"]
    /\ UNCHANGED <<content, msg, res, loopPc, loopRes, swarmLock, peersLock,
                   peers, listeners, attempts>>
    /\ UNCHANGED envVars

\* let peers = self.peers.lock().await
DiscoverLockPeers(t) ==
    /\ pc[t] = "d_peers"
    /\ CanLock(peersLock)
    /\ peersLock' = {t}
    /\ pc' = [pc EXCEPT ![t] = "d_collect"]
    /\ UNCHANGED <<content, msg, res, loopPc, loopRes, netLock, swarmLock,
                   peers, listeners, attempts>>
    /\ UNCHANGED envVars

\* fault variant: the command refreshes the peer set from the mDNS records before
\* it collects
DiscoverCollectRefreshes(t) ==
    /\ pc[t] = "d_collect"
    /\ peers' = peers \cup RemotePeers
    /\ \E order \in IterOrders(peers') :
          res' = [res EXCEPT ![t] = DiscoverPeersResult(order)]
    /\ peersLock' = {}
    /\ pc' = [pc EXCEPT ![t] = "d_ret"]
    /\ UNCHANGED <<content, msg, loopPc, loopRes, netLock, swarmLock, listeners, attempts>>
    /\ UNCHANGED envVars

\* collect the ids in HashSet iteration order; Ok(peer_ids) drops the peers guard
DiscoverCollect(t) ==
    /\ pc[t] = "d_collect"
    /\ \E order \in IterOrders(peers) :
          res' = [res EXCEPT ![t] = DiscoverPeersResult(order)]
    /\ peersLock' = {}
    /\ pc' = [pc EXCEPT ![t] = "d_ret"]
    /\ UNCHANGED <<content, msg, loopPc, loopRes, netLock, swarmLock,
                   peers, listeners, attempts>>
    /\ UNCHANGED envVars

\* the command returns network.discover_peers().await and drops the network guard
DiscoverReturn(t) ==
    /\ pc[t] = "d_ret"
    /\ netLock' = {}
    /\ pc' = [pc EXCEPT ![t] = "d_done"]
    /\ UNCHANGED <<content, msg, res, loopPc, loopRes, swarmLock, peersLock,
                   peers, listeners, attempts>>
    /\ UNCHANGED envVars

(* --------------------------- command: send_message -------------------- *)
InvokeSend(t) ==
    /\ pc[t] = "idle"
    /\ \E c \in Contents : content' = [content EXCEPT ![t] = c]
    /\ pc' = [pc EXCEPT ![t] = "s_lock"]
    /\ UNCHANGED <<msg, res, loopPc, loopRes, netLock, swarmLock, peersLock,
                   peers, listeners, attempts>>
    /\ UNCHANGED envVars

\* let network = state.p2p_network.lock().await
SendLock(t) ==
    /\ pc[t] = "s_lock"
    /\ CanLock(netLock)
    /\ netLock' = {t}
    /\ pc' = [pc EXCEPT ![t] = "s_build"]
    /\ UNCHANGED <<content, msg, res, loopPc, loopRes, swarmLock, peersLock,
                   peers, listeners, attempts>>
    /\ UNCHANGED envVars

\* let message = P2PMessage { content, sender: "local", timestamp: now }
SendBuild(t) ==
    /\ pc[t] = "s_build"
    /\ \E now \in Instants : msg' = [msg EXCEPT ![t] = BuildMessage(content[t], now)]
    /\ pc' = [pc EXCEPT ![t] = "s_peers"]
    /\ UNCHANGED <<content, res, loopPc, loopRes, netLock, swarmLock, peersLock,
                   peers, listeners, attempts>>
    /\ UNCHANGED envVars

\* P2PNetwork::send_message logs the message, then self.peers.lock().await
SendLockPeers(t) ==
    /\ pc[t] = "s_peers"
    /\ CanLock(peersLock)
    /\ peersLock' = {t}
    /\ pc' = [pc EXCEPT ![t] = "s_fmt"]
    /\ UNCHANGED <<content, msg, res, loopPc, loopRes, netLock, swarmLock,
                   peers, listeners, attempts>>
    /\ UNCHANGED envVars

\* fault variant: send_message refuses to work before the network was started
SendFormatRequiresStart(t) ==
    /\ pc[t] = "s_fmt"
    /\ res' = [res EXCEPT ![t] = IF listeners = {} THEN Err("P2P network not started", 0)
                                  ELSE OkArg("Message sent to {} peers", Cardinality(peers))]
    /\ peersLock' = {}
    /\ pc' = [pc EXCEPT ![t] = "s_ret"]
    /\ UNCHANGED <<content, msg, loopPc, loopRes, netLock, swarmLock,
                   peers, listeners, attempts>>
    /\ UNCHANGED envVars

\* Ok(format!(.., .len())): no stream is opened; the peers guard is dropped
SendFormat(t) ==
    /\ pc[t] = "s_fmt"
    /\ res' = [res EXCEPT ![t] = SendResult(peers)]
    /\ peersLock' = {}
    /\ pc' = [pc EXCEPT ![t] = "s_ret"]
    /\ UNCHANGED <<content, msg, loopPc, loopRes, netLock, swarmLock,
                   peers, listeners, attempts>>
    /\ UNCHANGED envVars

\* the command returns and drops the network guard
SendReturn(t) ==
    /\ pc[t] = "s_ret"
    /\ netLock' = {}
    /\ pc' = [pc EXCEPT ![t] = "s_done"]
    /\ UNCHANGED <<content, msg, res, loopPc, loopRes, swarmLock, peersLock,
                   peers, listeners, attempts>>
    /\ UNCHANGED envVars

\* the UI has taken the command's value; the invocation slot is free again
Complete(t) ==
    /\ pc[t] \in {"c_done", "d_done", "s_done"}
    /\ pc' = [pc EXCEPT ![t] = "idle"]
    /\ res' = [res EXCEPT ![t] = NoResult]
    /\ msg' = [msg EXCEPT ![t] = NoMessage]
    /\ content' = [content EXCEPT ![t] = ""]
    /\ attempts' = [attempts EXCEPT ![t] = 0]
    /\ UNCHANGED <<loopPc, loopRes, netLock, swarmLock, peersLock, peers, listeners>>
    /\ UNCHANGED envVars

(* ------------------------- run_p2p_event_loop ------------------------- *)
\* tokio::time::sleep(30 s) elapses
LoopWake ==
    /\ loopPc = "sleep"
    /\ loopPc' = "l_lock"
    /\ UNCHANGED <<pc, content, msg, res, loopRes, netLock, swarmLock, peersLock,
                   peers, listeners, attempts>>
    /\ UNCHANGED envVars

\* fault variant: the loop goes on to the peer set without taking the network mutex
LoopLockSkipsNetwork ==
    /\ loopPc = "l_lock"
    /\ loopPc' = "l_peers"
    /\ UNCHANGED <<pc, content, msg, res, loopRes, netLock, swarmLock, peersLock,
                   peers, listeners, attempts>>
    /\ UNCHANGED envVars

\* network.lock().await
LoopLock ==
    /\ loopPc = "l_lock"
    /\ CanLock(netLock)
    /\ netLock' = {EventLoop}
    /\ loopPc' = "l_peers"
    /\ UNCHANGED <<pc, content, msg, res, loopRes, swarmLock, peersLock,
                   peers, listeners, attempts>>
    /\ UNCHANGED envVars

\* .discover_peers(): self.peers.lock().await
LoopLockPeers ==
    /\ loopPc = "l_peers"
    /\ CanLock(peersLock)
    /\ peersLock' = {EventLoop}
    /\ loopPc' = "l_collect"
    /\ UNCHANGED <<pc, content, msg, res, loopRes, netLock, swarmLock,
                   peers, listeners, attempts>>
    /\ UNCHANGED envVars

\* fault variant: the loop drains the mDNS events into the peer set without leaving
\* out the node's own announcement
LoopCollectInsertsAnnounced ==
    /\ loopPc = "l_collect"
    /\ peers' = peers \cup {k \in PeerKeys : netEvent[k] = "PeerDiscovered"}
    /\ \E order \in IterOrders(peers') : loopRes' = DiscoverPeersResult(order)
    /\ peersLock' = {}
    /\ loopPc' = "l_log"
    /\ UNCHANGED <<pc, content, msg, res, netLock, swarmLock, listeners, attempts>>
    /\ UNCHANGED envVars

\* .discover_peers(): collect and drop the peers guard
LoopCollect ==
    /\ loopPc = "l_collect"
    /\ \E order \in IterOrders(peers) : loopRes' = DiscoverPeersResult(order)
    /\ peersLock' = {}
    /\ loopPc' = "l_log"
    /\ UNCHANGED <<pc, content, msg, res, netLock, swarmLock,
                   peers, listeners, attempts>>
    /\ UNCHANGED envVars

\* fault variant: the network guard is bound outside the loop body and is still held
\* when the loop sleeps
LoopLogKeepsGuard ==
    /\ loopPc = "l_log"
    /\ loopPc' = "sleep"
    /\ UNCHANGED <<pc, content, msg, res, loopRes, netLock, swarmLock, peersLock,
                   peers, listeners, attempts>>
    /\ UNCHANGED envVars

\* if let Ok(peers) = .. { info!(..) }: the network guard lives to the end of the
\* if-let, then the loop sleeps again.  The swarm is never polled here.
LoopLog ==
    /\ loopPc = "l_log"
    /\ netLock' = {}
    /\ loopPc' = "sleep"
    /\ UNCHANGED <<pc, content, msg, res, loopRes, swarmLock, peersLock,
                   peers, listeners, attempts>>
    /\ UNCHANGED envVars

(* ----------------------------- environment ---------------------------- *)
\* an instance announces identity k on the LAN (again, possibly): the mDNS behaviour
\* would report PeerDiscovered if the swarm were polled
MdnsDiscovered(k) ==
    /\ netEvent' = [netEvent EXCEPT ![k] = "PeerDiscovered"]
    /\ announced' = IF k \in RemotePeers /\ k \notin Range(announced)
                    THEN Append(announced, k) ELSE announced
    /\ UNCHANGED <<faulty, inbox, codec>>
    /\ UNCHANGED progVars

\* remote instance k went silent for the mDNS ttl: PeerExpired would be reported;
\* there is no stream to it any more
MdnsExpired(k) ==
    /\ netEvent[k] = "PeerDiscovered"
    /\ netEvent' = [netEvent EXCEPT ![k] = "PeerExpired"]
    /\ announced' = SelectSeq(announced, LAMBDA x : x # k)
    /\ faulty' = faulty \ {k}
    /\ UNCHANGED <<inbox, codec>>
    /\ UNCHANGED progVars

\* streams to the present remote peer k start or stop failing
StreamFault(k) ==
    /\ netEvent[k] = "PeerDiscovered"
    /\ faulty' = IF k \in faulty THEN faulty \ {k} ELSE faulty \cup {k}
    /\ UNCHANGED <<netEvent, announced, inbox, codec>>
    /\ UNCHANGED progVars

(* ---------------------------- specification --------------------------- *)
Command(t) ==
    \/ InvokeConnect(t) \/ ConnectLock(t) \/ StartLockSwarm(t) \/ StartListen(t)
    \/ ConnectReturn(t)
    \/ InvokeDiscover(t) \/ DiscoverLock(t) \/ DiscoverLockPeers(t) \/ DiscoverCollect(t)
    \/ DiscoverReturn(t)
    \/ InvokeSend(t) \/ SendLock(t) \/ SendBuild(t) \/ SendLockPeers(t) \/ SendFormat(t)
    \/ SendReturn(t)
    \/ Complete(t)

Loop == LoopWake \/ LoopLock \/ LoopLockPeers \/ LoopCollect \/ LoopLog

Environment ==
    \/ \E k \in PeerKeys : MdnsDiscovered(k)
    \/ \E k \in RemotePeers : MdnsExpired(k) \/ StreamFault(k)

Next == (\E t \in Tasks : Command(t)) \/ Loop \/ Environment

Spec == Init /\ [][Next]_vars

\* the steps a command invocation takes by itself once the UI has issued it
Proceed(t) ==
    \/ ConnectLock(t) \/ StartLockSwarm(t) \/ StartListen(t) \/ ConnectReturn(t)
    \/ DiscoverLock(t) \/ DiscoverLockPeers(t) \/ DiscoverCollect(t) \/ DiscoverReturn(t)
    \/ SendLock(t) \/ SendBuild(t) \/ SendLockPeers(t) \/ SendFormat(t) \/ SendReturn(t)

\* the tasks of the process alone: the commands the UI invokes and the event loop.
\* No step of theirs reads netEvent, announced, faulty or inbox, and no step of the
\* LAN changes a variable of theirs (see EnvironmentApart), so their lock behaviour is
\* the same with the LAN left quiet
Program == (\E t \in Tasks : Command(t)) \/ Loop

\* the tokio runtime keeps polling every task that can run, and tokio's Mutex hands
\* the lock to its waiters in FIFO order, so a task that waits for a mutex that is
\* released again and again gets it
FairSpec ==
    /\ Init
    /\ [][Program]_vars
    /\ \A t \in Tasks : SF_vars(Proceed(t))
    /\ SF_vars(Loop)

(* ------------- #[derive(Serialize, Deserialize)] on P2PMessage --------- *)
\* the messages the codec is tried on: any content, sender and timestamp text
Senders == {LocalSender} \cup {PeerIdToString(k) : k \in PeerKeys}
Messages == {P2PMessage(c, sd, ToRfc3339(i)) : c \in Contents, sd \in Senders, i \in Instants}

\* the struct's field names, in declaration order
FieldNames == <<"content", "sender", "timestamp">>

\* derived Serialize: serialize_struct("P2PMessage", 3), one serialize_field per field
Serialize(m) ==
    [name |-> "P2PMessage",
     fields |-> << [key |-> "content", str |-> m.content],
                   [key |-> "sender", str |-> m.sender],
                   [key |-> "timestamp", str |-> m.timestamp] >>]

\* the entries of a serialized struct that carry the given key
Entries(w, key) == {i \in DOMAIN w.fields : w.fields[i].key = key}
\* the value of the one entry with the given key
Field(w, key) == w.fields[CHOOSE i \in Entries(w, key) : TRUE].str

\* fault variant: the fields are read by position, whatever their keys
DeserializeByPosition(w) ==
    IF Len(w.fields) # 3 THEN Err("invalid length {}", Len(w.fields))
    ELSE [kind |-> "Ok",
          value |-> P2PMessage(w.fields[1].str, w.fields[2].str, w.fields[3].str)]

\* derived Deserialize (visit_map): every field exactly once, by key, in any order;
\* unknown keys are skipped
Deserialize(w) ==
    IF \E i \in DOMAIN FieldNames : Cardinality(Entries(w, FieldNames[i])) > 1
    THEN Err("duplicate field {}", w.name)
    ELSE IF \E i \in DOMAIN FieldNames : Entries(w, FieldNames[i]) = {}
    THEN Err("missing field {}", w.name)
    ELSE [kind |-> "Ok",
          value |-> P2PMessage(Field(w, "content"), Field(w, "sender"),
                               Field(w, "timestamp"))]

\* a message is handed to the encoder
CodecInit ==
    /\ Started
    /\ \E m \in Messages :
          codec = [phase |-> "message", m |-> m, wire |-> <<>>, out |-> NoResult]

Encode ==
    /\ codec.phase = "message"
    /\ codec' = [codec EXCEPT !.phase = "wire", !.wire = Serialize(codec.m)]
    /\ UNCHANGED <<progVars, netEvent, announced, faulty, inbox>>

\* a self-describing format hands the struct's entries to the decoder in any order
Reorder ==
    /\ codec.phase = "wire"
    /\ \E fs \in IterOrders(Range(codec.wire.fields)) :
          codec' = [codec EXCEPT !.wire = [codec.wire EXCEPT !.fields = fs]]
    /\ UNCHANGED <<progVars, netEvent, announced, faulty, inbox>>

Decode ==
    /\ codec.phase = "wire"
    /\ codec' = [codec EXCEPT !.phase = "decoded", !.out = Deserialize(codec.wire)]
    /\ UNCHANGED <<progVars, netEvent, announced, faulty, inbox>>

CodecNext == Encode \/ Reorder \/ Decode

CodecSpec == CodecInit /\ [][CodecNext]_vars

(* ======================== properties of the model ===================== *)
\* remote identities whose last mDNS event is PeerDiscovered
RemoteDiscovered == {k \in RemotePeers : netEvent[k] = "PeerDiscovered"}

\* the per-peer failures a command result records (the code's results carry none)
RecordedFailures(r) == IF "failed" \in DOMAIN r THEN r.failed ELSE {}

\* invocation t holds the value of its send_message call
SendHasResult(t) == pc[t] \in {"s_ret", "s_done"}
\* invocation t has built its P2PMessage
SendHasMessage(t) == pc[t] \in {"s_peers", "s_fmt", "s_ret", "s_done"}
\* the step in which invocation t collects the peer list
CollectStep(t) == pc[t] = "d_collect" /\ pc'[t] = "d_ret"
\* the step in which invocation t performs the broadcast and formats its result
FormatStep(t) == pc[t] = "s_fmt" /\ pc'[t] = "s_ret"
\* the step in which invocation t calls listen_on
ListenStep(t) == pc[t] = "c_listen" /\ pc'[t] = "c_ret"

(* C1: whenever list-peers collects its answer, the ids it returns are exactly the   *)
(* remote peers whose last discovery event was PeerDiscovered, each exactly once.    *)
C1_ListIsDiscoveredSet ==
    [][\A t \in Tasks :
          CollectStep(t) =>
             /\ Range(res'[t].list) = {PeerIdToString(k) : k \in RemoteDiscovered}
             /\ Len(res'[t].list) = Cardinality(RemoteDiscovered)]_vars

(* C2: a broadcast to the N discovered peers of which M have failing streams reports *)
(* N-M sent and exactly those M as failures, and the message is in the inbox of each *)
(* of the other N-M peers.                                                           *)
C2_BroadcastPerPeer ==
    [][\A t \in Tasks :
          FormatStep(t) =>
             LET N == RemoteDiscovered
                 M == RemoteDiscovered \cap faulty
             IN  /\ res'[t].kind = "Ok"
                 /\ res'[t].arg = Cardinality(N) - Cardinality(M)
                 /\ RecordedFailures(res'[t]) = M
                 /\ \A k \in N \ M : msg[t] \in inbox'[k]]_vars

(* C3: with an empty peer set send_message returns Ok with a count of 0 and no       *)
(* failures, never Err.                                                              *)
C3_EmptyBroadcastOk ==
    \A t \in Tasks :
        (SendHasResult(t) /\ peers = {}) =>
            /\ res[t].kind = "Ok"
            /\ res[t].arg = 0
            /\ RecordedFailures(res[t]) = {}

C3_Witness ==
    \E t \in Tasks : pc[t] = "s_done" /\ peers = {} /\ res[t].kind = "Ok" /\ res[t].arg = 0

(* C6: the peer set never holds the local PeerId, and no peer list handed to a       *)
(* command or to the event loop names it, also after the LAN announced that id.      *)
C6_NoLocalPeer ==
    /\ LocalPeerId \notin peers
    /\ \A t \in Tasks :
          pc[t] \in {"d_ret", "d_done"} =>
              PeerIdToString(LocalPeerId) \notin Range(res[t].list)
    /\ loopRes.kind = "Ok" => PeerIdToString(LocalPeerId) \notin Range(loopRes.list)

C6_Witness ==
    /\ netEvent[LocalKey] = "PeerDiscovered"
    /\ loopRes.kind = "Ok"
    /\ \E t \in Tasks : pc[t] = "d_done" /\ res[t].kind = "Ok"

(* C7: every send_message returns an Ok value, before start and while listening,     *)
(* whatever peers are announced and whatever streams fail.                           *)
C7_SendAlwaysReturnsResult ==
    \A t \in Tasks : SendHasResult(t) => res[t].kind = "Ok"

C7_Witness ==
    \E t \in Tasks :
        /\ pc[t] = "s_done"
        /\ res[t].kind = "Ok"
        /\ listeners = {}
        /\ faulty # {}

(* C10: every message send_message builds carries the caller's content and, as       *)
(* sender, the text of the local PeerId.                                             *)
C10_SenderIsLocalPeerId ==
    \A t \in Tasks :
        SendHasMessage(t) =>
            /\ msg[t].content = content[t]
            /\ msg[t].sender = PeerIdToString(LocalPeerId)

\* the value start would return if it handed the bound address to its caller
BoundAddress(p) == OkArg("/ip4/0.0.0.0/tcp/{}", p)

\* invocation t holds the successful value of connect_p2p
ConnectSucceeded(t) == pc[t] = "c_done" /\ res[t].kind = "Ok"
\* invocation t holds the error value of connect_p2p
ConnectFailed(t) == pc[t] = "c_done" /\ res[t].kind = "Err"

C9_BindFailureNotRetried ==
    /\ [][\A t \in Tasks :
             /\ ListenStep(t) => (res'[t].kind = "Err" <=> listeners' = listeners)
             /\ (pc[t] = "c_ret" /\ res[t].kind = "Err" /\ pc'[t] # "c_ret") =>
                    /\ ConnectFailed(t)'
                    /\ listeners' = listeners
                    /\ attempts'[t] = 1]_vars
    /\ [][listeners' # listeners \/ attempts' # attempts =>
             \E t \in Tasks : ListenStep(t) \/ pc'[t] = "idle"]_vars
    /\ [](\A t \in Tasks : attempts[t] <= 1)

C9_Witness ==
    \E t \in Tasks : ConnectFailed(t) /\ listeners = {} /\ attempts[t] = 1

(* C11: list-peers returns the live peers in the order in which they were first      *)
(* discovered: the list it collects is the sequence of live remote peers in          *)
(* announcement order.                                                               *)
C11_ListInDiscoveryOrder ==
    [][\A t \in Tasks :
          CollectStep(t) =>
             res'[t].list = [i \in DOMAIN announced |-> PeerIdToString(announced[i])]]_vars

HoldsNetwork(t) ==
    pc[t] \in {"c_start", "c_listen", "c_ret", "d_peers", "d_collect", "d_ret",
               "s_build", "s_peers", "s_fmt", "s_ret"}
\* positions at which the event loop holds the network guard
LoopHoldsNetwork == loopPc \in {"l_peers", "l_collect", "l_log"}
\* the event loop has been through discover_peers: it has acquired the network
\* mutex and the peers mutex at least once
LoopHasLocked == loopRes.kind = "Ok"

Accessing ==
    {t \in Tasks : pc[t] \in {"c_listen", "d_collect", "s_fmt"}}
        \cup (IF loopPc = "l_collect" THEN {EventLoop} ELSE {})

(* C14: at most one task, a command invocation or the event loop, is reading or      *)
(* mutating the peer set or the swarm handle at any time.                            *)
C14_MutualExclusion == Cardinality(Accessing) <= 1

C14_Witness ==
    /\ loopPc = "l_lock"
    /\ \E t \in Tasks : pc[t] = "c_listen" /\ Accessing = {t}

\* the lifecycle the listener set stands for: Idle until a listener is bound
Idle == listeners = {}
Listening == listeners # {}

(* C15: the lifecycle only goes Idle -> Listening, by a start that binds, and        *)
(* Listening -> Listening; and start performs a bind only when taken from Idle.      *)
(* (The source has no shutdown, so no step reaches a terminal state.)                *)
C15_Lifecycle ==
    [][/\ (Idle /\ Listening') => \E t \in Tasks : ListenStep(t)
       /\ Listening => Listening'
       /\ \A t \in Tasks : ListenStep(t) => Idle]_vars

\* remote peers whose last discovery event the peer set does not reflect yet
Outstanding ==
    {k \in RemotePeers : \/ netEvent[k] = "PeerDiscovered" /\ k \notin peers
                         \/ netEvent[k] = "PeerExpired" /\ k \in peers}
\* the peer set after the last discovery event about k has been handled
Handled(ps, k) == IF netEvent[k] = "PeerDiscovered" THEN ps \cup {k} ELSE ps \ {k}
\* position of k in the announcement order
Arrival(k) == CHOOSE i \in DOMAIN announced : announced[i] = k
\* the step in which an iteration of the event loop works on the peer set
IterationStep == loopPc = "l_collect" /\ loopPc' = "l_log"

(* C16: an iteration of the event loop that finds events outstanding handles exactly *)
(* one of them, and handles discoveries in arrival order: the peer set changes by    *)
(* that one event, the earliest announced of the outstanding discoveries first.      *)
C16_OneEventInOrder ==
    [][(IterationStep /\ Outstanding # {}) =>
          \E k \in Outstanding :
             /\ peers' = Handled(peers, k)
             /\ netEvent[k] = "PeerDiscovered" =>
                   \A j \in Outstanding :
                       netEvent[j] = "PeerDiscovered" => Arrival(k) <= Arrival(j)]_vars

(* C19: the peer set is empty in every reachable state, so every peer list returned  *)
(* to a command or to the event loop is empty and every send_message reports 0       *)
(* peers, whatever the LAN announced.                                                *)
C19_PeersAlwaysEmpty ==
    /\ peers = {}
    /\ \A t \in Tasks : pc[t] \in {"d_ret", "d_done"} => res[t].list = <<>>
    /\ loopRes.kind = "Ok" => loopRes.list = <<>>
    /\ \A t \in Tasks : SendHasResult(t) => res[t].arg = 0

C19_Witness ==
    /\ RemoteDiscovered # {}
    /\ listeners # {}
    /\ loopRes.kind = "Ok"
    /\ \E t \in Tasks : pc[t] = "d_done" /\ res[t].list = <<>>

\* invocation t is running discover_peers or send_message
ReadCommand(t) ==
    pc[t] \in {"d_lock", "d_peers", "d_collect", "d_ret", "d_done",
               "s_lock", "s_build", "s_peers", "s_fmt", "s_ret", "s_done"}
\* invocation t takes this step
StepOf(t) == pc'[t] # pc[t]

(* C20: no step of discover_peers or send_message changes the peer set or the        *)
(* listener set (hence the lifecycle state), and the count send_message reports is   *)
(* the size of the peer set at the step that reads it.                               *)
C20_ReadOnlyCommands ==
    [][\A t \in Tasks :
          /\ (StepOf(t) /\ (ReadCommand(t) \/ ReadCommand(t)')) =>
                 /\ peers' = peers
                 /\ listeners' = listeners
          /\ FormatStep(t) => res'[t].arg = Cardinality(peers)]_vars

C20_Witness ==
    /\ listeners # {}
    /\ RemoteDiscovered # {}
    /\ \E t \in Tasks : pc[t] = "s_done" /\ res[t].arg = Cardinality(peers)

\* the tasks that hold one of the two inner mutexes
InnerHolders == swarmLock \cup peersLock
\* the tasks that hold any mutex
Holders == netLock \cup InnerHolders
\* the next step of task p can be taken now
CanStep(p) == IF p = EventLoop THEN ENABLED Loop ELSE ENABLED Proceed(p)
\* a step of the LAN changes no variable of the process
EnvironmentApart == [][Environment => UNCHANGED progVars]_vars
\* invocation t has its value
Returned(t) == pc[t] \in {"c_done", "d_done", "s_done"}

====
